---- MODULE Spec2Model ----
(***************************************************************************)
(* Model of the analysis orchestration core of websites-checker:          *)
(*   src/lib/analysis/orchestrator.ts  (Orchestrator)                     *)
(*   src/unnamed/part_004              (createAnalysisContext)            *)
(* The registry is a JavaScript Map (insertion ordered), modelled as a    *)
(* sequence of module records.  executeAnalysis is an async function: the *)
(* code between two awaits runs atomically, so there is one action for    *)
(* the segment from the call to the first await and one action for each   *)
(* way the awaited execute() settles.                                     *)
(***************************************************************************)
EXTENDS Integers, Sequences, FiniteSets, TLC

\* ------------------------------------------------------------------ bounds
MaxModules == 3       \* registry size in Spec
MaxDeps == 1          \* length of a dependency list in Spec
MaxGraphDeps == 2     \* length of a dependency list in SpecGraph
MaxRuns == 2          \* executeAnalysis calls on one orchestrator
MaxThrowing == 1      \* events that have a throwing listener
MaxOrderLen == 201    \* modules of a run in SpecProgress

\* Names a caller may use: two of the eight names the aggregate reads, and
\* one it does not read.
ModuleNames == {"crawler", "seo", "custom"}
\* The name and phase of the modules registered in Spec: a module of the
\* crawl phase under the name the aggregate reads first, the same name with
\* another phase, a module of another phase, and a module of the crawl phase
\* under a name the aggregate does not read.
NamePhases ==
  {<<"crawler", "crawl">>, <<"crawler", "seo">>, <<"seo", "seo">>, <<"custom", "crawl">>}
\* The names a dependency list of Spec is drawn from
DepNames == {"crawler", "custom"}

VARIABLES
  modules,         \* Orchestrator.modules, in insertion order
  moduleResults,   \* Orchestrator.moduleResults
  lastCall,        \* the last method called on the orchestrator and what it threw
  cleared,         \* history: the last registry call (registerModule, clearModules) was clearModules
  run,             \* number of executeAnalysis calls made so far
  pc,              \* "idle" | "awaiting" | "done" | "rejected"
  executionOrder,  \* local executionOrder of the call in flight
  idx,             \* position in executionOrder of the module being awaited
  crawlResults,    \* context.crawlResults of the call in flight
  throwing,        \* events that have a listener that throws
  trace,           \* events emitted (and execute() invocations) in this call
  returned,        \* the aggregate the call resolved with
  thrown,          \* the error the call rejected with
  succeededBefore, \* history: modules whose execute() resolved in an earlier call
  job,             \* the job object of the call in flight, as its caller sees it
  given,           \* history: the job as it was when executeAnalysis was called
  memoryCache,     \* the module-level memoryCache map of cache.ts
  redisStore,      \* the contents of the external store
  redisUp,         \* the external store is reachable
  useRedis,        \* CacheManager.useRedis of each instance
  now,             \* Date.now(), in milliseconds
  ticks,           \* number of clock advances so far
  ops,             \* number of cache operations made so far
  lastOp,          \* history: whether the last cache operation called the store,
                   \* whether the store answered, and its instance's useRedis
                   \* before it
  other,           \* the locals of a second executeAnalysis call on the same
                   \* instance: its position, order, context slot and outcome,
                   \* and whether it began while the first call awaited a module
  written          \* history: through which prefix each entry of the memory map and
                   \* of the store was set and, in memory, when and with which options;
                   \* which keys were deleted or cleared, through which prefix, and
                   \* not written since

orchVars == <<modules, moduleResults, lastCall, cleared, run, pc, executionOrder, idx,
              crawlResults, throwing, trace, returned, thrown, succeededBefore, job, given,
              other>>
cacheVars == <<memoryCache, redisStore, redisUp, useRedis, now, ticks, ops, lastOp, written>>
vars == <<orchVars, cacheVars>>


\* ------------------------------------------------------------------ values
\* undefined, for a result slot
Absent == [module |-> "", run |-> 0]
\* what module n's execute() resolves with in call r
ResultOf(n, r) == [module |-> n, run |-> r]

NoError == [kind |-> "none", module |-> "", dep |-> ""]
CircularError(n) == [kind |-> "circular", module |-> n, dep |-> ""]
MissingError(n, d) == [kind |-> "missing", module |-> n, dep |-> d]
NotFoundError(n) == [kind |-> "notfound", module |-> n, dep |-> ""]
ExecuteError(n) == [kind |-> "execute", module |-> n, dep |-> ""]
ListenerError(e, n) == [kind |-> "listener", module |-> n, dep |-> e]

EmptyMap == [x \in {} |-> Absent]
MapGet(map, k) == IF k \in DOMAIN map THEN map[k] ELSE Absent
MapSet(map, k, v) == [x \in (DOMAIN map) \cup {k} |-> IF x = k THEN v ELSE map[x]]

NoAggregate == [settled |-> FALSE]

\* ---------------------------------------------------------------- registry
has(mods, n) == \E i \in 1..Len(mods) : mods[i].name = n
get(mods, n) == mods[CHOOSE i \in 1..Len(mods) : mods[i].name = n]

getModule(n) == IF has(modules, n) THEN {get(modules, n)} ELSE {}
getAllModules == modules

\* Sequences without repetition over S, of length at most n
DistinctSeqs(S, n) ==
  UNION { {s \in [1..k -> S] : \A i, j \in 1..k : i # j => s[i] # s[j]} : k \in 0..n }

Module(n, ph, deps) ==
  [name |-> n, phase |-> ph, dependencies |-> deps, depsIsArray |-> TRUE,
   execute |-> "function"]

\* Arguments of registerModule: well-formed modules, and the malformed ones
\* the validation rejects.
ValidModules ==
  {Module(np[1], np[2], deps) : np \in NamePhases, deps \in DistinctSeqs(DepNames, MaxDeps)}
InvalidModules ==
  { [name |-> "", phase |-> "seo", dependencies |-> <<>>, depsIsArray |-> TRUE, execute |-> "function"],
    [name |-> "seo", phase |-> "", dependencies |-> <<>>, depsIsArray |-> TRUE, execute |-> "function"],
    [name |-> "seo", phase |-> "seo", dependencies |-> <<>>, depsIsArray |-> FALSE, execute |-> "function"],
    [name |-> "seo", phase |-> "seo", dependencies |-> <<>>, depsIsArray |-> TRUE, execute |-> "undefined"],
    [name |-> "custom", phase |-> "", dependencies |-> <<>>, depsIsArray |-> FALSE, execute |-> "undefined"] }

\* The error registerModule throws for module m, "none" if it stores it.
registerModuleError(mods, m) ==
  IF has(mods, m.name) THEN "duplicate"
  ELSE IF m.name = "" THEN "name"
  ELSE IF m.phase = "" THEN "phase"
  ELSE IF ~m.depsIsArray THEN "dependencies"
  ELSE IF m.execute # "function" THEN "execute"
  ELSE "none"

\* registerModule that stores the module before it checks for a duplicate:
\* Map.set replaces the definition stored under the name
registerModule_StoresFirst(mods, m) ==
  IF registerModuleError(mods, m) = "duplicate"
    THEN [i \in 1..Len(mods) |-> IF mods[i].name = m.name THEN m ELSE mods[i]]
  ELSE IF registerModuleError(mods, m) # "none" THEN mods
  ELSE Append(mods, m)
registerModule(mods, m) ==
  IF registerModuleError(mods, m) # "none" THEN mods ELSE Append(mods, m)

\* --------------------------------------------------------- dependency order
RECURSIVE visit(_, _, _)
RECURSIVE visitDeps(_, _, _, _, _)
\* visit with one set of marks: a module met again, finished or still in
\* progress, is skipped
visit_SingleMark(mods, st, moduleName) ==
  IF st.error.kind # "none" THEN st
  ELSE IF moduleName \in st.visiting \cup st.visited THEN st
  ELSE IF ~has(mods, moduleName)
    THEN [st EXCEPT !.error = NotFoundError(moduleName)]
  ELSE LET module == get(mods, moduleName)
           st1 == [st EXCEPT !.visiting = @ \cup {moduleName}]
           st2 == visitDeps(mods, st1, moduleName, module.dependencies, 1)
       IN IF st2.error.kind # "none" THEN st2
          ELSE [st2 EXCEPT !.visiting = @ \ {moduleName},
                           !.visited = @ \cup {moduleName},
                           !.order = Append(@, module)]
visit(mods, st, moduleName) ==
  IF st.error.kind # "none" THEN st
  ELSE IF moduleName \in st.visiting
    THEN [st EXCEPT !.error = CircularError(moduleName)]
  ELSE IF moduleName \in st.visited THEN st
  ELSE IF ~has(mods, moduleName)
    THEN [st EXCEPT !.error = NotFoundError(moduleName)]
  ELSE LET module == get(mods, moduleName)
           st1 == [st EXCEPT !.visiting = @ \cup {moduleName}]
           st2 == visitDeps(mods, st1, moduleName, module.dependencies, 1)
       IN IF st2.error.kind # "none" THEN st2
          ELSE [st2 EXCEPT !.visiting = @ \ {moduleName},
                           !.visited = @ \cup {moduleName},
                           !.order = Append(@, module)]
\* visitDeps that passes over a dependency that is not registered
visitDeps_SkipUnregistered(mods, st, moduleName, deps, j) ==
  IF st.error.kind # "none" \/ j > Len(deps) THEN st
  ELSE IF ~has(mods, deps[j])
    THEN visitDeps(mods, st, moduleName, deps, j + 1)
  ELSE visitDeps(mods, visit(mods, st, deps[j]), moduleName, deps, j + 1)
visitDeps(mods, st, moduleName, deps, j) ==
  IF st.error.kind # "none" \/ j > Len(deps) THEN st
  ELSE IF ~has(mods, deps[j])
    THEN [st EXCEPT !.error = MissingError(moduleName, deps[j])]
  ELSE visitDeps(mods, visit(mods, st, deps[j]), moduleName, deps, j + 1)

RECURSIVE visitAll(_, _, _)
RECURSIVE visitAll_Reversed(_, _, _)
\* the loop over the registry taken from the module registered last
visitAll_Reversed(mods, st, i) ==
  IF i > Len(mods) THEN st
  ELSE visitAll_Reversed(mods, visit(mods, st, mods[Len(mods) + 1 - i].name), i + 1)
visitAll(mods, st, i) ==
  IF i > Len(mods) THEN st
  ELSE visitAll(mods, visit(mods, st, mods[i].name), i + 1)

\* resolveExecutionOrder that returns the modules as registered
resolveExecutionOrder_Unsorted(mods) ==
  [visitAll(mods, [visited |-> {}, visiting |-> {}, order |-> <<>>, error |-> NoError], 1)
     EXCEPT !.order = IF @ = <<>> THEN <<>> ELSE mods]
\* [order, error]: the order returned, or the error thrown
resolveExecutionOrder(mods) ==
  visitAll(mods, [visited |-> {}, visiting |-> {}, order |-> <<>>, error |-> NoError], 1)

\* ------------------------------------------------------------------- events
\* One entry of the trace: an emitted event, or ("execute") the invocation of
\* a module's execute() with the crawlResults of the context it is given.
Ev(type, name, result, progress, phase, error, aggregate) ==
  [type |-> type, name |-> name, result |-> result, progress |-> progress,
   phase |-> phase, error |-> error, aggregate |-> aggregate]
ModuleStartEv(n) == Ev("moduleStart", n, Absent, 0, "", NoError, NoAggregate)
ExecuteEv(n, ctx) == Ev("execute", n, ctx, 0, "", NoError, NoAggregate)
ModuleCompleteEv(n, res) == Ev("moduleComplete", n, res, 0, "", NoError, NoAggregate)
ProgressEv(n, phase, p) == Ev("progress", n, Absent, p, phase, NoError, NoAggregate)
ModuleErrorEv(n, err) == Ev("moduleError", n, Absent, 0, "", err, NoAggregate)
CompleteEv(results) == Ev("complete", "", Absent, 0, "", NoError, results)
ErrorEv(err) == Ev("error", "", Absent, 0, "", err, NoAggregate)

\* Events emitted inside the try blocks of executeAnalysis
ListenerEvents == {"moduleStart", "moduleComplete", "progress", "moduleError", "complete"}
ThrowChoices == {T \in SUBSET ListenerEvents : Cardinality(T) <= MaxThrowing}

\* EventEmitter.emit: the listeners run synchronously inside emit
emit(st, ev) == [st EXCEPT !.trace = Append(@, ev)]

\* ----------------------------------------------------------------- progress
\* A positive IEEE-754 double is sig * 2^(-scale - 52); its significand is
\* kept in limbs, sig = h*2^52 + m1*2^34 + m2*2^16 + l.
normalize(h, m1, m2, l) ==
  LET c3 == l \div 65536
      c2 == (m2 + c3) \div 262144
      c1 == (m1 + c2) \div 262144
  IN [h |-> h + c1, m1 |-> (m1 + c2) % 262144, m2 |-> (m2 + c3) % 262144,
      l |-> l % 65536]

\* round to nearest, ties to even: whether one unit in the last place is added
roundsUp(lsb, guard, sticky) == guard = 1 /\ (sticky \/ lsb = 1)

\* the double a / b, for integers 0 < a <= b < 4096
fdiv(a, b) ==
  LET z == CHOOSE s \in 0..12 : a * 2^s >= b /\ a * 2^s < 2 * b
      r0 == a * 2^z - b
      d1 == (r0 * 262144) \div b
      r1 == (r0 * 262144) % b
      d2 == (r1 * 262144) \div b
      r2 == (r1 * 262144) % b
      d3 == (r2 * 262144) \div b
      r3 == (r2 * 262144) % b
      up == roundsUp((d3 \div 4) % 2, (d3 \div 2) % 2, d3 % 2 = 1 \/ r3 # 0)
  IN [scale |-> z, sig |-> normalize(1, d1, d2, (d3 \div 4) + (IF up THEN 1 ELSE 0))]

\* the double x * 100
fmul100(x) ==
  LET p == normalize(100 * x.sig.h, 100 * x.sig.m1, 100 * x.sig.m2, 100 * x.sig.l)
      drop == IF p.h >= 128 THEN 128 ELSE 64
      up == roundsUp((p.l \div drop) % 2, (p.l \div (drop \div 2)) % 2,
                     p.l % (drop \div 2) # 0)
  IN [scale |-> x.scale,
      sig |-> normalize(p.h, p.m1, p.m2, (p.l \div drop) * drop + (IF up THEN drop ELSE 0))]

\* Math.round(y) for a double y > 0 with y.scale >= 0: floor(y + 1/2)
mathRound(y) ==
  LET whole == y.sig.h \div 2^y.scale
      half == IF y.scale = 0 THEN y.sig.m1 \div 131072
              ELSE (y.sig.h \div 2^(y.scale - 1)) % 2
  IN whole + half

\* Array.prototype.findIndex on the names: the first match, -1 if none
findIndex(order, name) ==
  LET hits == {i \in 1..Len(order) : order[i].name = name}
  IN IF hits = {} THEN -1 ELSE (CHOOSE i \in hits : \A j \in hits : i <= j) - 1

\* Math.round((a / b) * 100): the quotient and the product are each one double
roundedPercent(a, b) ==
  CHOOSE r \in {mathRound(y) : y \in {fmul100(x) : x \in {fdiv(a, b)}}} : TRUE

\* calculateProgress that counts the modules before the current one
calculateProgress_IndexOnly(order, currentModule) ==
  LET currentIndex == findIndex(order, currentModule)
  IN IF currentIndex = -1 \/ currentIndex = 0 THEN 0
     ELSE roundedPercent(currentIndex, Len(order))
calculateProgress(order, currentModule) ==
  LET currentIndex == findIndex(order, currentModule)
  IN IF currentIndex = -1 THEN 0
     ELSE roundedPercent(currentIndex + 1, Len(order))

\* --------------------------------------------------------- executeAnalysis
\* aggregate whose crawl and seo slots read each other's name
Aggregate_SwappedSlots(results) ==
  [settled |-> TRUE,
   crawlData |-> MapGet(results, "seo"),
   performanceData |-> MapGet(results, "performance"),
   securityData |-> MapGet(results, "security"),
   technologyData |-> MapGet(results, "technology"),
   seoData |-> MapGet(results, "crawler"),
   accessibilityData |-> MapGet(results, "accessibility"),
   cssData |-> MapGet(results, "css"),
   functionalityData |-> MapGet(results, "functionality")]
Aggregate(results) ==
  [settled |-> TRUE,
   crawlData |-> MapGet(results, "crawler"),
   performanceData |-> MapGet(results, "performance"),
   securityData |-> MapGet(results, "security"),
   technologyData |-> MapGet(results, "technology"),
   seoData |-> MapGet(results, "seo"),
   accessibilityData |-> MapGet(results, "accessibility"),
   cssData |-> MapGet(results, "css"),
   functionalityData |-> MapGet(results, "functionality")]

\* outer catch that rethrows without emitting error
Fatal_Silent(st, err) ==
  [st EXCEPT !.pc = "rejected", !.thrown = err]
\* outer catch: emit error, rethrow
Fatal(st, err) ==
  [emit(st, ErrorEv(err)) EXCEPT !.pc = "rejected", !.thrown = err]

\* after the loop: aggregate, emit complete, return
\* the end of the loop without the complete event
Finish_NoComplete(thr, st) ==
  [st EXCEPT !.pc = "done", !.returned = Aggregate(st.moduleResults)]
Finish(thr, st) ==
  LET results == Aggregate(st.moduleResults)
      st1 == emit(st, CompleteEv(results))
  IN IF "complete" \in thr
       THEN Fatal(st1, ListenerError("complete", ""))
       ELSE [st1 EXCEPT !.pc = "done", !.returned = results]

\* The for loop from iteration i up to the next await (or to the return),
\* and the inner catch block of iteration i.
RECURSIVE StartLoop(_, _, _, _)
RECURSIVE StartLoop_NoAwait(_, _, _, _)
RECURSIVE CatchModule(_, _, _, _, _)
\* loop that passes over a module one of whose dependencies has no result
StartLoop_SkipsDependents(thr, order, st, i) ==
  IF i > Len(order) THEN Finish(thr, st)
  ELSE IF \E j \in 1..Len(order[i].dependencies) :
            order[i].dependencies[j] \notin DOMAIN st.moduleResults
    THEN StartLoop(thr, order, st, i + 1)
  ELSE LET n == order[i].name
           st1 == emit(st, ModuleStartEv(n))
       IN IF "moduleStart" \in thr
            THEN CatchModule(thr, order, st1, i, ListenerError("moduleStart", n))
            ELSE [emit(st1, ExecuteEv(n, st1.crawlResults))
                    EXCEPT !.pc = "awaiting", !.idx = i]
\* a loop that awaits the last module only
StartLoop_NoAwait(thr, order, st, i) ==
  IF i > Len(order) THEN Finish(thr, st)
  ELSE LET n == order[i].name
           st1 == emit(emit(st, ModuleStartEv(n)), ExecuteEv(n, st.crawlResults))
       IN IF i < Len(order) THEN StartLoop_NoAwait(thr, order, st1, i + 1)
          ELSE [st1 EXCEPT !.pc = "awaiting", !.idx = i]
StartLoop(thr, order, st, i) ==
  IF i > Len(order) THEN Finish(thr, st)
  ELSE LET n == order[i].name
           st1 == emit(st, ModuleStartEv(n))
       IN IF "moduleStart" \in thr
            THEN CatchModule(thr, order, st1, i, ListenerError("moduleStart", n))
            ELSE [emit(st1, ExecuteEv(n, st1.crawlResults))
                    EXCEPT !.pc = "awaiting", !.idx = i]
\* inner catch that leaves the loop after reporting the failure
CatchModule_Break(thr, order, st, i, err) ==
  LET n == order[i].name
      st1 == emit(st, ModuleErrorEv(n, err))
  IN IF "moduleError" \in thr
       THEN Fatal(st1, ListenerError("moduleError", n))
       ELSE Finish(thr, st1)
\* inner catch that rethrows after reporting the failure
CatchModule_Rethrow(thr, order, st, i, err) ==
  LET n == order[i].name
      st1 == emit(st, ModuleErrorEv(n, err))
  IN IF "moduleError" \in thr
       THEN Fatal(st1, ListenerError("moduleError", n))
       ELSE Fatal(st1, err)
CatchModule(thr, order, st, i, err) ==
  LET n == order[i].name
      st1 == emit(st, ModuleErrorEv(n, err))
  IN IF "moduleError" \in thr
       THEN Fatal(st1, ListenerError("moduleError", n))
       ELSE StartLoop(thr, order, st1, i + 1)

\* an iteration that puts the result of a module of any phase in the slot
AfterExecute_AnyPhase(thr, order, st, i, res) ==
  LET n == order[i].name
      st2 == [st EXCEPT !.moduleResults = MapSet(@, n, res), !.crawlResults = res]
      st3 == emit(st2, ModuleCompleteEv(n, res))
      st4 == emit(st3, ProgressEv(n, order[i].phase, calculateProgress(order, n)))
  IN IF "moduleComplete" \in thr
       THEN CatchModule(thr, order, st3, i, ListenerError("moduleComplete", n))
     ELSE IF "progress" \in thr
       THEN CatchModule(thr, order, st4, i, ListenerError("progress", n))
     ELSE StartLoop(thr, order, st4, i + 1)
\* The rest of iteration i once execute() has resolved with res
AfterExecute(thr, order, st, i, res) ==
  LET module == order[i]
      n == module.name
      st1 == [st EXCEPT !.moduleResults = MapSet(@, n, res)]
      st2 == IF module.phase = "crawl" THEN [st1 EXCEPT !.crawlResults = res] ELSE st1
      st3 == emit(st2, ModuleCompleteEv(n, res))
      st4 == emit(st3, ProgressEv(n, module.phase, calculateProgress(order, n)))
  IN IF "moduleComplete" \in thr
       THEN CatchModule(thr, order, st3, i, ListenerError("moduleComplete", n))
     ELSE IF "progress" \in thr
       THEN CatchModule(thr, order, st4, i, ListenerError("progress", n))
     ELSE StartLoop(thr, order, st4, i + 1)

\* A new context holds url and options only: its crawlResults are undefined.
createAnalysisContext == [crawlResults |-> Absent]

\* start of a call that does not clear the results table
FreshCall_KeepsResults ==
  [moduleResults |-> moduleResults, crawlResults |-> createAnalysisContext.crawlResults, trace |-> <<>>,
   pc |-> "idle", idx |-> 0, returned |-> NoAggregate, thrown |-> NoError]
\* the locals of a call and the results table, at the start of the call:
\* moduleResults.clear(), a fresh context
FreshCall ==
  [moduleResults |-> EmptyMap, crawlResults |-> createAnalysisContext.crawlResults,
   trace |-> <<>>,
   pc |-> "idle", idx |-> 0, returned |-> NoAggregate, thrown |-> NoError]

\* executeAnalysis from the call to the first await
BeginAnalysis(thr, mods) ==
  LET res == resolveExecutionOrder(mods)
  IN IF res.error.kind # "none"
       THEN [order |-> <<>>, st |-> Fatal(FreshCall, res.error)]
       ELSE [order |-> res.order, st |-> StartLoop(thr, res.order, FreshCall, 1)]

Current ==
  [moduleResults |-> moduleResults, crawlResults |-> crawlResults, trace |-> trace,
   pc |-> pc, idx |-> idx, returned |-> returned, thrown |-> thrown]

Install(st) ==
  /\ moduleResults' = st.moduleResults
  /\ crawlResults' = st.crawlResults
  /\ trace' = st.trace
  /\ pc' = st.pc
  /\ idx' = st.idx
  /\ returned' = st.returned
  /\ thrown' = st.thrown

Call(op, err) == [op |-> op, error |-> err]

\* ------------------------------------------------------ the analysis job
JobStatuses == {"queued", "running"}
Job(status) ==
  [id |-> "job1", url |-> "https://example.com", status |-> status,
   options |-> [maxDepth |-> 3], createdAt |-> 0]
Jobs == {Job(status) : status \in JobStatuses}
NoJob == [id |-> ""]
\* executeAnalysis that marks the job as running
JobAfter_SetsStatus(j) == [j EXCEPT !.status = "running"]
\* the job object after a step of executeAnalysis: job.id, job.url and
\* job.options are read, nothing is assigned
JobAfter(j) == j

\* ------------------------------------------------------------ cache manager
\* A string is kept as the sequence of the segments that its ':' separate:
\* 'analysis:job1' is <<"analysis", "job1">>, and joining two strings with a
\* ':' is the concatenation of their segments.
DefaultTtl == 3600
DefaultPrefix == <<"analysis">>
\* the prefix of the cache manager of a call: `analysis:${job.id}`
JobPrefix(id) == <<"analysis", id>>
\* the instances: one of the default prefix, two of the prefix of one job
Managers == {"default", "job1a", "job1b"}
Prefix(m) == IF m = "default" THEN DefaultPrefix ELSE JobPrefix("job1")
Keys == {<<"k">>, <<"job1", "k">>}
\* null, which get returns for an absent key and which a caller may store
Null == "null"
Values == {"x", Null}
NoOptions == [none |-> TRUE]
CacheOptions == {NoOptions, [ttl |-> 0], [ttl |-> 1]}

getKey(prefix, key) == prefix \o key
\* key.startsWith(`${prefix}:`), and the pattern `${prefix}:*` of redis.keys
startsWith(ck, prefix) ==
  /\ Len(ck) > Len(prefix)
  /\ SubSeq(ck, 1, Len(prefix)) = prefix
CacheKeys == {getKey(Prefix(m), k) : m \in Managers, k \in Keys}

\* JSON.stringify and JSON.parse: a text is JSON or is not
stringify(v) == <<"json", v>>
RawText == <<"raw", "x">>
parses(text) == text[1] = "json"
parse(text) == text[2]

MapRemove(map, K) == [x \in (DOMAIN map) \ K |-> map[x]]

\* the external store: setex keeps an expiry, set keeps none; a key is gone
\* once its expiry is reached
redisLive(rs, t) ==
  {ck \in DOMAIN rs : "expires" \in DOMAIN rs[ck] => t < rs[ck].expires}
redisGet(rs, t, ck) == IF ck \in redisLive(rs, t) THEN rs[ck].value ELSE <<>>
redisSetex(rs, t, ck, ttl, text) ==
  MapSet(rs, ck, [value |-> text, expires |-> t + ttl * 1000])
redisDel(rs, K) == MapRemove(rs, K)
redisKeys(rs, t, prefix) == {ck \in redisLive(rs, t) : startsWith(ck, prefix)}

\* The state a cache operation of one instance works on, and its outcome:
\* mc the memory map, rs the external store, flag the instance's useRedis,
\* up whether the store answers, wr the history of the sets, res
\* what the operation returns, called whether it called the store.
CacheState(m) ==
  [mc |-> memoryCache, rs |-> redisStore, flag |-> useRedis[m], up |-> redisUp,
   wr |-> written, res |-> "void", called |-> FALSE]

\* an instance that tries the external store whenever it is reachable
triesRedis_Retries(c) == c.up
\* if (this.useRedis)
triesRedis(c) == c.flag

\* the expiry check of get and has: an expired entry is deleted
memoryLookup(c, t, ck) ==
  IF ck \notin DOMAIN c.mc THEN [c EXCEPT !.res = Null]
  ELSE IF t > c.mc[ck].expires
    THEN [c EXCEPT !.mc = MapRemove(@, {ck}), !.wr.mem = MapRemove(@, {ck}), !.res = Null]
  ELSE [c EXCEPT !.res = "live"]

cacheGet(c0, t, prefix, key) ==
  LET ck == getKey(prefix, key)
      viaRedis == triesRedis(c0)
      c == [c0 EXCEPT !.called = viaRedis]
      text == redisGet(c.rs, t, ck)
      fallback == [c EXCEPT !.flag = FALSE]
      found == memoryLookup(fallback, t, ck)
      inMemory ==
        IF found.res = Null THEN found
        ELSE IF parses(c.mc[ck].value) THEN [found EXCEPT !.res = parse(c.mc[ck].value)]
        ELSE [found EXCEPT !.res = Null]
  IN IF viaRedis /\ c.up /\ text = <<>> THEN [c EXCEPT !.res = Null]
     ELSE IF viaRedis /\ c.up /\ parses(text) THEN [c EXCEPT !.res = parse(text)]
     ELSE inMemory

cacheSet(c0, t, prefix, key, value, options) ==
  LET ck == getKey(prefix, key)
      ttl == IF "ttl" \in DOMAIN options /\ options.ttl # 0 THEN options.ttl ELSE DefaultTtl
      text == stringify(value)
      viaRedis == triesRedis(c0)
      c == [c0 EXCEPT !.called = viaRedis]
  IN IF viaRedis /\ c.up
       THEN [c EXCEPT !.rs = redisSetex(@, t, ck, ttl, text),
                      !.wr.redis = MapSet(@, ck, [by |-> prefix]),
                      !.wr.gone = {g \in @ : g.ck # ck}]
     ELSE [c EXCEPT !.flag = FALSE,
                    !.mc = MapSet(@, ck, [value |-> text, expires |-> t + ttl * 1000]),
                    !.wr.mem = MapSet(@, ck, [by |-> prefix, at |-> t, options |-> options]),
                    !.wr.gone = {g \in @ : g.ck # ck}]

cacheDelete(c0, t, prefix, key) ==
  LET ck == getKey(prefix, key)
      viaRedis == triesRedis(c0)
      c == [c0 EXCEPT !.called = viaRedis]
  IN IF viaRedis /\ c.up
       THEN [c EXCEPT !.rs = redisDel(@, {ck}), !.wr.redis = MapRemove(@, {ck}),
                      !.wr.gone = @ \cup {[by |-> prefix, ck |-> ck]}]
       ELSE [c EXCEPT !.flag = FALSE, !.mc = MapRemove(@, {ck}), !.wr.mem = MapRemove(@, {ck}),
                      !.wr.gone = @ \cup {[by |-> prefix, ck |-> ck]}]

\* has that does not look at the expiry of an in-memory entry
cacheHas_IgnoresExpiry(c0, t, prefix, key) ==
  LET ck == getKey(prefix, key)
      viaRedis == triesRedis(c0)
      c == [c0 EXCEPT !.called = viaRedis]
  IN IF viaRedis /\ c.up
       THEN [c EXCEPT !.res = IF ck \in redisLive(c.rs, t) THEN "true" ELSE "false"]
       ELSE [c EXCEPT !.flag = FALSE,
                      !.res = IF ck \in DOMAIN c.mc THEN "true" ELSE "false"]
cacheHas(c0, t, prefix, key) ==
  LET ck == getKey(prefix, key)
      viaRedis == triesRedis(c0)
      c == [c0 EXCEPT !.called = viaRedis]
      found == memoryLookup([c EXCEPT !.flag = FALSE], t, ck)
  IN IF viaRedis /\ c.up
       THEN [c EXCEPT !.res = IF ck \in redisLive(c.rs, t) THEN "true" ELSE "false"]
       ELSE [found EXCEPT !.res = IF found.res = Null THEN "false" ELSE "true"]

\* clear(); delFails: the store stops answering between redis.keys and redis.del
cacheClear(c0, t, prefix, delFails) ==
  LET viaRedis == triesRedis(c0)
      c == [c0 EXCEPT !.called = viaRedis]
      keys == redisKeys(c.rs, t, prefix)
      mine == {ck \in DOMAIN c.mc : startsWith(ck, prefix)}
      removed == {[by |-> prefix, ck |-> getKey(prefix, key)] : key \in Keys}
  IN IF viaRedis /\ c.up /\ ~(delFails /\ keys # {})
       THEN [c EXCEPT !.rs = redisDel(@, keys), !.wr.redis = MapRemove(@, keys),
                      !.wr.gone = @ \cup removed]
       ELSE [c EXCEPT !.flag = FALSE, !.up = @ /\ ~viaRedis,
                      !.mc = MapRemove(@, mine), !.wr.mem = MapRemove(@, mine),
                      !.wr.gone = @ \cup removed]

NoOp == [called |-> FALSE, up |-> TRUE, before |-> TRUE]

CacheInit ==
  /\ memoryCache = EmptyMap
  /\ redisStore = EmptyMap
  /\ redisUp = TRUE
  /\ useRedis = [m \in Managers |-> TRUE]
  /\ now = 0
  /\ ticks = 0
  /\ ops = 0
  /\ lastOp = NoOp
  /\ written = [mem |-> EmptyMap, redis |-> EmptyMap, gone |-> {}]

\* no second call has been made
NoCall ==
  [pc |-> "idle", idx |-> 0, executionOrder |-> <<>>, crawlResults |-> Absent,
   returned |-> NoAggregate, thrown |-> NoError, run |-> 0, overlapped |-> FALSE]

\* ------------------------------------------------------------------ actions
Init ==
  /\ modules = <<>>
  /\ moduleResults = EmptyMap
  /\ lastCall = Call("new", "none")
  /\ cleared = FALSE
  /\ run = 0
  /\ pc = "idle"
  /\ executionOrder = <<>>
  /\ idx = 0
  /\ crawlResults = Absent
  /\ throwing = {}
  /\ trace = <<>>
  /\ returned = NoAggregate
  /\ thrown = NoError
  /\ succeededBefore = {}
  /\ job = NoJob
  /\ given = NoJob
  /\ other = NoCall
  /\ CacheInit

\* registerModule(m), m one of inputs, on a registry that may grow to cap
RegisterModuleFrom(inputs, cap) ==
  /\ pc = "idle"
  /\ \E m \in inputs :
       /\ Len(modules) < cap \/ registerModuleError(modules, m) # "none"
       /\ modules' = registerModule(modules, m)
       /\ lastCall' = Call("registerModule", registerModuleError(modules, m))
  /\ cleared' = FALSE
  /\ UNCHANGED <<moduleResults, run, pc, executionOrder, idx, crawlResults,
                 throwing, trace, returned, thrown, succeededBefore, job, given>>
  /\ UNCHANGED other
  /\ UNCHANGED cacheVars

\* the arguments registerModule is called with in Spec
ModuleInputs == ValidModules \cup InvalidModules
RegisterModule == RegisterModuleFrom(ModuleInputs, MaxModules)

\* clearModules that clears the results table only
ClearModules_KeepsRegistry ==
  /\ pc = "idle"
  /\ modules' = modules
  /\ moduleResults' = EmptyMap
  /\ lastCall' = Call("clearModules", "none")
  /\ cleared' = TRUE
  /\ UNCHANGED <<run, pc, executionOrder, idx, crawlResults, throwing, trace,
                 returned, thrown, succeededBefore, job, given>>
  /\ UNCHANGED other
  /\ UNCHANGED cacheVars
ClearModules ==
  /\ pc = "idle"
  /\ modules' = <<>>
  /\ moduleResults' = EmptyMap
  /\ lastCall' = Call("clearModules", "none")
  /\ cleared' = TRUE
  /\ UNCHANGED <<run, pc, executionOrder, idx, crawlResults, throwing, trace,
                 returned, thrown, succeededBefore, job, given>>
  /\ UNCHANGED other
  /\ UNCHANGED cacheVars

\* executeAnalysis(job) is called with one of jobs, with listeners attached of
\* which those of the events thr throw; runs up to the first await
ExecuteAnalysisWith(choices, jobs) ==
  /\ pc = "idle"
  /\ run < MaxRuns
  /\ \E thr \in choices :
       LET b == BeginAnalysis(thr, modules)
       IN /\ throwing' = thr
          /\ executionOrder' = b.order
          /\ Install(b.st)
  /\ run' = run + 1
  /\ lastCall' = Call("executeAnalysis", "none")
  /\ \E j \in jobs :
       /\ given' = j
       /\ job' = JobAfter(j)
  /\ UNCHANGED <<modules, cleared, succeededBefore>>
  /\ UNCHANGED other
  /\ UNCHANGED cacheVars

ExecuteAnalysis == ExecuteAnalysisWith(ThrowChoices, Jobs)

\* the awaited execute() of the current module resolves
ModuleResolves ==
  /\ pc = "awaiting"
  /\ \E st \in {AfterExecute(throwing, executionOrder, Current, idx,
                             ResultOf(executionOrder[idx].name, run))} : Install(st)
  /\ job' = JobAfter(job)
  /\ UNCHANGED <<modules, lastCall, cleared, run, executionOrder, throwing, succeededBefore,
                 given>>
  /\ UNCHANGED other
  /\ UNCHANGED cacheVars

\* the awaited execute() of the current module rejects (or throws)
ModuleRejects ==
  /\ pc = "awaiting"
  /\ \E st \in {CatchModule(throwing, executionOrder, Current, idx,
                            ExecuteError(executionOrder[idx].name))} : Install(st)
  /\ job' = JobAfter(job)
  /\ UNCHANGED <<modules, lastCall, cleared, run, executionOrder, throwing, succeededBefore,
                 given>>
  /\ UNCHANGED other
  /\ UNCHANGED cacheVars

\* the caller takes the settled promise; the locals of the call are gone
Return ==
  /\ pc \in {"done", "rejected"}
  /\ pc' = "idle"
  /\ executionOrder' = <<>>
  /\ idx' = 0
  /\ crawlResults' = Absent
  /\ throwing' = {}
  /\ trace' = <<>>
  /\ returned' = NoAggregate
  /\ thrown' = NoError
  /\ succeededBefore' = succeededBefore \cup DOMAIN moduleResults
  /\ job' = NoJob
  /\ given' = NoJob
  /\ UNCHANGED <<modules, moduleResults, lastCall, cleared, run>>
  /\ UNCHANGED other
  /\ UNCHANGED cacheVars

Next ==
  \/ RegisterModule
  \/ ClearModules
  \/ ExecuteAnalysis
  \/ ModuleResolves
  \/ ModuleRejects
  \/ Return

Spec == Init /\ [][Next]_vars

\* ---------------------------------------------------------------------------
\* SpecGraph: the dependency resolver on every registry of up to four modules
\* whose dependency lists have up to MaxGraphDeps entries, with listeners
\* that do not throw.  A fourth module, depending on two of the others,
\* closes the diamond.  Each name is registered at most once (a second
\* registration of a name changes nothing), and one call is made on each
\* registry.
MaxGraphModules == 4
DiamondTop == "accessibility"
GraphModules ==
  {Module(n, "seo", deps) : n \in ModuleNames,
                            deps \in DistinctSeqs(ModuleNames, MaxGraphDeps)}
  \cup {Module(DiamondTop, "seo", deps) : deps \in {<<"seo", "custom">>, <<"custom", "seo">>}}

RegisterGraphModule ==
  RegisterModuleFrom({m \in GraphModules : ~has(modules, m.name)}, MaxGraphModules)
\* a call with listeners that do not throw, for a job marked as running
QuietListeners == {{}}
RunningJobs == {Job("running")}
ExecuteAnalysisQuiet == ExecuteAnalysisWith(QuietListeners, RunningJobs)

NextGraph ==
  \/ RegisterGraphModule
  \/ ExecuteAnalysisQuiet
  \/ ModuleResolves
  \/ ModuleRejects

SpecGraph == Init /\ [][NextGraph]_vars

\* ---------------------------------------------------------------------------
\* SpecProgress: a call on a registry of n independent modules, n up to
\* MaxOrderLen, whose execute() all resolve.  It starts where executeAnalysis
\* awaits the first module: the resolved order of independent modules is the
\* registration order.
IndependentModules(n) ==
  [k \in 1..n |-> Module(ToString(k), IF k % 2 = 1 THEN "crawl" ELSE "seo", <<>>)]

\* a call on n independent modules, with throwing listeners thr, where it
\* first awaits (or where it ends, if it awaits nothing)
InitProgressWith(n, thr) ==
    LET st == StartLoop(thr, IndependentModules(n), FreshCall, 1)
    IN /\ modules = IndependentModules(n)
       /\ executionOrder = IndependentModules(n)
       /\ moduleResults = st.moduleResults
       /\ crawlResults = st.crawlResults
       /\ trace = st.trace
       /\ pc = st.pc
       /\ idx = st.idx
       /\ returned = st.returned
       /\ thrown = st.thrown
       /\ lastCall = Call("executeAnalysis", "none")
       /\ cleared = FALSE
       /\ run = 1
       /\ throwing = thr
       /\ succeededBefore = {}
       /\ job = Job("running")
       /\ given = Job("running")
       /\ other = NoCall
       /\ CacheInit

InitProgress == \E n \in 1..MaxOrderLen : InitProgressWith(n, {})

NextProgress == ModuleResolves

SpecProgress == InitProgress /\ [][NextProgress]_vars

\* ---------------------------------------------------------------------------
\* SpecCache: three cache manager instances on one memory map and one
\* external store, which may stop and start answering and to which another
\* client writes; up to MaxOps operations and MaxTicks clock advances.
MaxOps == 2
MaxTicks == 1
\* to the expiry of a ttl of one second and of the default ttl, and past them
TickSteps == {1, 1000, 1001, DefaultTtl * 1000, DefaultTtl * 1000 + 1}

\* one operation of instance m, whose outcome is c
CacheOp(m, c) ==
  /\ ops < MaxOps
  /\ memoryCache' = c.mc
  /\ redisStore' = c.rs
  /\ redisUp' = c.up
  /\ useRedis' = [useRedis EXCEPT ![m] = c.flag]
  /\ written' = c.wr
  /\ ops' = ops + 1
  /\ lastOp' = [called |-> c.called, up |-> redisUp, before |-> useRedis[m]]
  /\ UNCHANGED <<now, ticks>>
  /\ UNCHANGED orchVars

Get ==
  \E m \in Managers, key \in Keys :
    CacheOp(m, cacheGet(CacheState(m), now, Prefix(m), key))
Set ==
  \E m \in Managers, key \in Keys, value \in Values, options \in CacheOptions :
    CacheOp(m, cacheSet(CacheState(m), now, Prefix(m), key, value, options))
Delete ==
  \E m \in Managers, key \in Keys :
    CacheOp(m, cacheDelete(CacheState(m), now, Prefix(m), key))
Has ==
  \E m \in Managers, key \in Keys :
    CacheOp(m, cacheHas(CacheState(m), now, Prefix(m), key))
Clear ==
  \E m \in Managers, delFails \in BOOLEAN :
    CacheOp(m, cacheClear(CacheState(m), now, Prefix(m), delFails))

\* the clock advances
Tick ==
  /\ ticks < MaxTicks
  /\ \E d \in TickSteps : now' = now + d
  /\ ticks' = ticks + 1
  /\ UNCHANGED <<memoryCache, redisStore, redisUp, useRedis, ops, lastOp, written>>
  /\ UNCHANGED orchVars

\* the external store stops, resp. starts, answering
StoreGoesDown ==
  /\ redisUp
  /\ redisUp' = FALSE
  /\ UNCHANGED <<memoryCache, redisStore, useRedis, now, ticks, ops, lastOp, written>>
  /\ UNCHANGED orchVars
StoreComesUp ==
  /\ ~redisUp
  /\ redisUp' = TRUE
  /\ UNCHANGED <<memoryCache, redisStore, useRedis, now, ticks, ops, lastOp, written>>
  /\ UNCHANGED orchVars

\* the general-purpose cache manager of the redis client stores a string as
\* it is, without an expiry, under a key of its caller's choice
ForeignSet ==
  /\ redisUp
  /\ \E ck \in CacheKeys :
       /\ redisStore' = MapSet(redisStore, ck, [value |-> RawText])
       /\ written' = [written EXCEPT !.redis = MapRemove(@, {ck}),
                                     !.gone = {g \in @ : g.ck # ck}]
  /\ UNCHANGED <<memoryCache, redisUp, useRedis, now, ticks, ops, lastOp>>
  /\ UNCHANGED orchVars

NextCache ==
  \/ Clear
  \/ Get
  \/ Set
  \/ Delete
  \/ Has
  \/ Tick
  \/ StoreGoesDown
  \/ StoreComesUp
  \/ ForeignSet

SpecCache == Init /\ [][NextCache]_vars

\* ===========================================================================
\* Properties
\* ===========================================================================
Registered == {modules[i].name : i \in 1..Len(modules)}
DepEdges ==
  UNION { {<<modules[i].name, modules[i].dependencies[j]>> :
             j \in 1..Len(modules[i].dependencies)} : i \in 1..Len(modules) }
DirectDeps(n) == {e[2] : e \in {d \in DepEdges : d[1] = n}}
\* what is reached from the modules S along up to k further dependency edges
RECURSIVE ReachWithin(_, _)
ReachWithin(S, k) ==
  IF k = 0 THEN S ELSE ReachWithin(S \cup UNION {DirectDeps(n) : n \in S}, k - 1)
\* the direct and transitive dependencies of n
DepsOf(n) == ReachWithin(DirectDeps(n), Len(modules))
OnCycle(n) == n \in DepsOf(n)
HasCycle == \E n \in Registered : OnCycle(n)
AllDepsRegistered == \A e \in DepEdges : e[2] \in Registered
PosInOrder(n) == CHOOSE i \in 1..Len(executionOrder) : executionOrder[i].name = n
OrderNames == {executionOrder[i].name : i \in 1..Len(executionOrder)}
IsDiamond ==
  /\ Len(modules) = 4
  /\ \E i \in 1..4 : modules[i].name = "crawler" /\ modules[i].dependencies = <<>>
  /\ \E i \in 1..4 : modules[i].name = "seo" /\ modules[i].dependencies = <<"crawler">>
  /\ \E i \in 1..4 : modules[i].name = "custom" /\ modules[i].dependencies = <<"crawler">>
  /\ \E i \in 1..4 : modules[i].name = DiamondTop

\* C1: once executeAnalysis has resolved the order of a registry whose
\* dependency graph is acyclic and whose dependencies are all registered, no
\* resolution error was raised, the order holds every registered module
\* exactly once, every module comes after all its direct and transitive
\* dependencies, and for the diamond the shared root is first and the top last.
C1_TopologicalOrder ==
  (pc # "idle" /\ ~HasCycle /\ AllDepsRegistered) =>
    /\ pc # "rejected"
    /\ thrown = NoError
    /\ Len(executionOrder) = Len(modules)
    /\ OrderNames = Registered
    /\ \A i \in 1..Len(executionOrder) : executionOrder[i] = get(modules, executionOrder[i].name)
    /\ \A n \in Registered : \A d \in DepsOf(n) : PosInOrder(d) < PosInOrder(n)
    /\ IsDiamond => /\ executionOrder[1].name = "crawler"
                    /\ executionOrder[4].name = DiamondTop

\* the diamond, its top registered first, has been resolved
C1_Witness ==
  /\ pc = "awaiting"
  /\ IsDiamond
  /\ modules[1].name = DiamondTop
  /\ modules[4].name = "crawler"
  /\ Len(executionOrder) = 4

\* C2 (as claimed): whenever the registry contains a dependency cycle,
\* executeAnalysis rejects with a circular-dependency error that names a module
\* on a cycle, emits error, and emits no moduleStart, invokes no execute and
\* emits no complete.
C2_AsClaimed ==
  (pc # "idle" /\ HasCycle) =>
    /\ pc = "rejected"
    /\ thrown.kind = "circular"
    /\ OnCycle(thrown.module)
    /\ trace = <<ErrorEv(thrown)>>

\* C2 (amended): whenever the registry contains a dependency cycle,
\* executeAnalysis rejects, emits error and nothing else, and invokes no
\* execute; the error is the circular-dependency error naming a module on a
\* cycle if every declared dependency is registered, and otherwise either that
\* or the missing-dependency error.
C2_CycleRejected ==
  (pc # "idle" /\ HasCycle) =>
    /\ pc = "rejected"
    /\ trace = <<ErrorEv(thrown)>>
    /\ thrown.kind \in {"circular", "missing"}
    /\ thrown.kind = "circular" => OnCycle(thrown.module)
    /\ AllDepsRegistered => thrown.kind = "circular"

\* a cycle through three modules has been rejected
C2_Witness ==
  /\ pc = "rejected"
  /\ thrown.kind = "circular"
  /\ AllDepsRegistered
  /\ Cardinality({n \in Registered : OnCycle(n)}) = 3
  /\ \A e \in DepEdges : <<e[2], e[1]>> \notin DepEdges

Declares(n, d) == <<n, d>> \in DepEdges
HasMissing == ~AllDepsRegistered

\* C3 (as claimed): whenever some registered module declares an unregistered
\* dependency, executeAnalysis rejects before any execute is invoked (error is
\* the only event), and the error names the declaring module and the missing
\* dependency.
C3_AsClaimed ==
  (pc # "idle" /\ HasMissing) =>
    /\ pc = "rejected"
    /\ trace = <<ErrorEv(thrown)>>
    /\ thrown.kind = "missing"
    /\ Declares(thrown.module, thrown.dep)
    /\ thrown.dep \notin Registered

\* C3 (amended): whenever some registered module declares an unregistered
\* dependency, executeAnalysis rejects before any execute is invoked (error is
\* the only event); the error is the missing-dependency error, naming the
\* declaring module and the missing name, if the registry has no dependency
\* cycle, and otherwise either that or the circular-dependency error.
C3_MissingRejected ==
  (pc # "idle" /\ HasMissing) =>
    /\ pc = "rejected"
    /\ trace = <<ErrorEv(thrown)>>
    /\ thrown.kind \in {"circular", "missing"}
    /\ thrown.kind = "missing" => /\ Declares(thrown.module, thrown.dep)
                                  /\ thrown.dep \notin Registered
    /\ ~HasCycle => thrown.kind = "missing"

\* a missing dependency declared by a module that is reached through another
C3_Witness ==
  /\ pc = "rejected"
  /\ thrown.kind = "missing"
  /\ ~HasCycle
  /\ Len(modules) = 3
  /\ thrown.module = modules[3].name
  /\ Declares(modules[1].name, modules[3].name)

\* ------------------------------------------------------- reading the trace
Idxs(type, n) == {i \in 1..Len(trace) : trace[i].type = type /\ trace[i].name = n}
Count(type, n) == Cardinality(Idxs(type, n))
At(type, n) == CHOOSE i \in Idxs(type, n) : TRUE
EventTypes == {trace[i].type : i \in 1..Len(trace)}
\* the call in flight found an order: no cycle, no unregistered dependency
ResolutionSucceeds == ~HasCycle /\ AllDepsRegistered
\* the iteration of the i-th module of the order is over
Settled(i) == pc # "awaiting" \/ i < idx
\* modules whose execute() resolved, resp. rejected, in the call in flight
Succeeded == {n \in OrderNames : Count("moduleComplete", n) > 0}
Failed ==
  {n \in OrderNames : \E i \in Idxs("moduleError", n) : trace[i].error = ExecuteError(n)}

\* C4: in a call whose order resolution succeeds and whose listeners do not
\* throw, every module whose iteration is over had execute invoked once and
\* got one moduleStart, then the invocation, then exactly one of moduleComplete
\* (its execute resolved: its result is stored) or moduleError (its execute
\* rejected); the module being awaited has its moduleStart and invocation and
\* no outcome yet; later modules have nothing yet; and when the call has
\* settled every module of the order is over, whichever of them failed.
C4_EveryModuleAttempted ==
  (pc # "idle" /\ throwing = {} /\ ResolutionSucceeds) =>
    \A i \in 1..Len(executionOrder) :
      LET n == executionOrder[i].name
          outcomes == Idxs("moduleComplete", n) \cup Idxs("moduleError", n)
      IN IF Settled(i)
           THEN /\ Count("moduleStart", n) = 1
                /\ Count("execute", n) = 1
                /\ Cardinality(outcomes) = 1
                /\ At("moduleStart", n) < At("execute", n)
                /\ \A o \in outcomes : At("execute", n) < o
                /\ Count("moduleComplete", n) = 1 <=> n \in DOMAIN moduleResults
                /\ Count("moduleError", n) = 1 <=> n \in Failed
         ELSE IF i = idx
           THEN /\ Count("moduleStart", n) = 1
                /\ Count("execute", n) = 1
                /\ outcomes = {}
                /\ At("moduleStart", n) < At("execute", n)
         ELSE Count("moduleStart", n) = 0 /\ Count("execute", n) = 0 /\ outcomes = {}

\* a call has settled in which the first module failed and the second completed
C4_Witness ==
  /\ pc = "done"
  /\ throwing = {}
  /\ Len(executionOrder) = 2
  /\ executionOrder[1].name \in Failed
  /\ executionOrder[2].name \in Succeeded
  /\ At("moduleError", executionOrder[1].name) < At("moduleStart", executionOrder[2].name)

\* C5: with order resolution succeeding and no listener throwing, a call never
\* rejects, whichever modules fail: once it has settled it has resolved with an
\* aggregate, complete was emitted (once, last) and error was not.
C5_FailuresNotSurfaced ==
  (pc # "idle" /\ throwing = {} /\ ResolutionSucceeds) =>
    /\ pc # "rejected"
    /\ thrown = NoError
    /\ "error" \notin EventTypes
    /\ pc = "done" => /\ returned # NoAggregate
                      /\ returned.settled
                      /\ Count("complete", "") = 1
                      /\ trace[Len(trace)] = CompleteEv(returned)
    /\ pc = "awaiting" => "complete" \notin EventTypes

\* a call in which every module failed has resolved
C5_Witness ==
  /\ pc = "done"
  /\ throwing = {}
  /\ Len(executionOrder) = 2
  /\ Failed = OrderNames
  /\ returned.settled

\* ------------------------------------------------------ reading the aggregate
\* the names the aggregate has a slot for
WellKnownNames ==
  {"crawler", "performance", "security", "technology", "seo", "accessibility",
   "css", "functionality"}
SlotOf(agg, n) ==
  CASE n = "crawler" -> agg.crawlData
    [] n = "performance" -> agg.performanceData
    [] n = "security" -> agg.securityData
    [] n = "technology" -> agg.technologyData
    [] n = "seo" -> agg.seoData
    [] n = "accessibility" -> agg.accessibilityData
    [] n = "css" -> agg.cssData
    [] n = "functionality" -> agg.functionalityData
Slots(agg) == {SlotOf(agg, n) : n \in WellKnownNames}
AllAbsent == \A n \in WellKnownNames : SlotOf(returned, n) = Absent

\* C6 (as claimed): the aggregate a call resolves with contains the result of
\* every module that succeeded in the call, whatever its name, and the result
\* of no module that failed.
C6_AsClaimed ==
  pc = "done" =>
    /\ \A n \in Succeeded : ResultOf(n, run) \in Slots(returned)
    /\ \A n \in Failed : \A v \in Slots(returned) : v.module # n

\* C6 (amended): the aggregate a call resolves with contains, in the slot of
\* its name, the result of every module that succeeded in the call and whose
\* name is one of the eight names the aggregate has a slot for; it contains
\* the result of no module that failed and of no module of another name.
C6_AggregateByName ==
  pc = "done" =>
    /\ \A n \in Succeeded \cap WellKnownNames : SlotOf(returned, n) = ResultOf(n, run)
    /\ \A n \in Succeeded \ WellKnownNames : \A v \in Slots(returned) : v.module # n
    /\ \A n \in Failed : \A v \in Slots(returned) : v.module # n
    /\ \A n \in WellKnownNames \ Succeeded : SlotOf(returned, n) = Absent

\* a call has resolved in which one module failed and seo succeeded
C6_Witness ==
  /\ pc = "done"
  /\ Failed # {}
  /\ "seo" \in Succeeded
  /\ returned.seoData = ResultOf("seo", run)
  /\ returned.crawlData = Absent

\* C8: in every call on an orchestrator that has served earlier calls, the
\* results table holds only results of module executions of the call in
\* flight, also when the call was aborted by a resolution failure; the
\* aggregate it resolves with holds, per slot, nothing or the result the
\* module of that name produced in this call; and the first module invoked is
\* given a context whose crawl results are absent.
C8_NoLeakAcrossCalls ==
  pc # "idle" =>
    /\ \A n \in DOMAIN moduleResults : moduleResults[n] = ResultOf(n, run) /\ n \in Succeeded
    /\ pc = "done" =>
         \A n \in WellKnownNames :
           \/ SlotOf(returned, n) = Absent
           \/ SlotOf(returned, n) = ResultOf(n, run) /\ n \in Succeeded
    /\ pc = "rejected" /\ ~ResolutionSucceeds => moduleResults = EmptyMap
    /\ \A i \in 1..Len(trace) :
         (trace[i].type = "execute" /\ \A j \in 1..(i - 1) : trace[j].type # "execute")
           => trace[i].result = Absent

\* a second call has resolved in which a module that succeeded in the first
\* call failed, and its slot is absent
C8_Witness ==
  /\ pc = "done"
  /\ run = 2
  /\ \E n \in succeededBefore \cap WellKnownNames :
       n \in Failed /\ SlotOf(returned, n) = Absent

\* the registry holds well-formed modules of distinct names
RegistryWellFormed ==
  \A i \in 1..Len(modules) :
    /\ modules[i].name # "" /\ modules[i].phase # ""
    /\ modules[i].depsIsArray /\ modules[i].execute = "function"
    /\ \A j \in 1..Len(modules) : modules[j].name = modules[i].name => j = i

\* C9: a registerModule call that throws (duplicate name, blank name or phase,
\* dependencies not an array, execute not a function) leaves getAllModules and
\* getModule of every name as they were, and no malformed or duplicate module
\* is ever stored.
C9_FailedRegistrationKeepsRegistry ==
  /\ []RegistryWellFormed
  /\ [][(lastCall'.op = "registerModule" /\ lastCall'.error # "none") =>
          /\ getAllModules' = getAllModules
          /\ \A n \in ModuleNames \cup {""} : getModule(n)' = getModule(n)]_vars

\* a registration has just failed as a duplicate on a registry of two modules
C9_Witness ==
  /\ lastCall = Call("registerModule", "duplicate")
  /\ Len(modules) = 2

\* C10 (as claimed): after clearModules the registry is empty, and a call that
\* follows it on the empty registry emits complete and nothing else and resolves with an
\* aggregate whose eight slots are absent.
C10_AsClaimed ==
  /\ lastCall.op = "clearModules" =>
       getAllModules = <<>> /\ \A n \in ModuleNames : getModule(n) = {}
  /\ (pc # "idle" /\ cleared) =>
       pc = "done" /\ trace = <<CompleteEv(returned)>> /\ returned.settled /\ AllAbsent

\* C10 (amended): after clearModules the registry is empty, and a call that
\* follows it on the empty registry emits no moduleStart, moduleComplete, moduleError or progress
\* and emits complete once; if no listener of complete throws, it emits nothing
\* else and resolves with an aggregate whose eight slots are absent.
C10_ClearedRunsEmpty ==
  /\ lastCall.op = "clearModules" =>
       getAllModules = <<>> /\ \A n \in ModuleNames : getModule(n) = {}
  /\ (pc # "idle" /\ cleared) =>
       /\ trace[1].type = "complete"
       /\ EventTypes \subseteq {"complete", "error"}
       /\ Count("complete", "") = 1
       /\ "complete" \notin throwing =>
            pc = "done" /\ trace = <<CompleteEv(returned)>> /\ returned.settled /\ AllAbsent

\* modules were registered and run, the registry was cleared, and a second
\* call has resolved on the empty registry
C10_Witness ==
  /\ pc = "done"
  /\ cleared
  /\ modules = <<>>
  /\ run = 2
  /\ succeededBefore # {}
  /\ trace = <<CompleteEv(returned)>>
  /\ AllAbsent

\* ------------------------------------------------------ reading the progress
IsProgress(e) == e.type = "progress"
ProgressEvents == SelectSeq(trace, IsProgress)
\* round(100 * k / n), halves rounded up, in exact integer arithmetic
RoundPercent(k, n) == (200 * k + n) \div (2 * n)
\* 100 * k / n lies exactly half-way between two integers
IsTie(k, n) == (200 * k) % (2 * n) = n

\* C7 (as claimed): in a call of N modules that all succeed, one progress event
\* is emitted per completed module, the k-th carries round(100*k/N) and the
\* name and phase of the k-th module of the order, the values are
\* non-decreasing and lie in 1..100, and the last one, the N-th, is 100.
C7_AsClaimed ==
  LET P == ProgressEvents
      N == Len(executionOrder)
  IN /\ Len(P) = (IF pc = "awaiting" THEN idx - 1 ELSE N)
     /\ \A k \in 1..Len(P) :
          /\ P[k].progress = RoundPercent(k, N)
          /\ P[k].name = executionOrder[k].name
          /\ P[k].phase = executionOrder[k].phase
          /\ P[k].progress \in 1..100
          /\ k > 1 => P[k - 1].progress <= P[k].progress
     /\ pc = "done" => Len(P) = N /\ P[N].progress = 100

\* C7 (amended): in a call of N modules that all succeed (and no listener
\* throws), one progress event is emitted per completed module, the k-th
\* carries the name and phase of the k-th module of the order and the value
\* round(100*k/N), or one less than that where 100*k/N lies exactly half-way
\* between two integers; the values are non-decreasing and lie in 0..100, in
\* 1..100 if N is at most 200, and the last one, the N-th, is 100.
C7_ProgressValues ==
  LET P == ProgressEvents
      N == Len(executionOrder)
  IN /\ Len(P) = (IF pc = "awaiting" THEN idx - 1 ELSE N)
     /\ \A k \in 1..Len(P) :
          /\ \/ P[k].progress = RoundPercent(k, N)
             \/ IsTie(k, N) /\ P[k].progress = RoundPercent(k, N) - 1
          /\ P[k].name = executionOrder[k].name
          /\ P[k].phase = executionOrder[k].phase
          /\ P[k].progress \in 0..100
          /\ N <= 200 => P[k].progress >= 1
          /\ k > 1 => P[k - 1].progress <= P[k].progress
     /\ pc = "done" => Len(P) = N /\ P[N].progress = 100

\* a call of forty modules has resolved; its 23rd progress value is 57, one
\* less than round(57.5), and its last is 100
C7_Witness ==
  /\ pc = "done"
  /\ Len(executionOrder) = 40
  /\ Len(ProgressEvents) = 40
  /\ ProgressEvents[23].progress = 57
  /\ RoundPercent(23, 40) = 58
  /\ ProgressEvents[40].progress = 100

\* ----------------------------------------------------- dependents of a failure
\* a moduleComplete or moduleError of module d stands before position i
OutcomeBefore(d, i) ==
  \E j \in 1..(i - 1) :
    trace[j].name = d /\ trace[j].type \in {"moduleComplete", "moduleError"}
\* every invocation of execute comes after the outcome of each dependency
DependenciesSettledFirst ==
  \A i \in 1..Len(trace) :
    trace[i].type = "execute" => \A d \in DepsOf(trace[i].name) : OutcomeBefore(d, i)
\* every module with a dependency whose execute failed was invoked once, with
\* a context that holds nothing of that dependency
DependentsOfFailuresRun ==
  \A n \in OrderNames :
    \A d \in DepsOf(n) \cap Failed :
      /\ Count("execute", n) = 1
      /\ \A i \in Idxs("execute", n) : trace[i].result.module # d

Settles == pc \in {"done", "rejected"}
LastEvent == trace[Len(trace)]
\* complete was emitted once, as the last event, after the outcome of the last
\* module of the order, with the aggregate the call returned; error was not
EndsWithComplete ==
  /\ pc = "done"
  /\ Count("complete", "") = 1
  /\ LastEvent = CompleteEv(returned)
  /\ executionOrder # <<>> =>
       OutcomeBefore(executionOrder[Len(executionOrder)].name, Len(trace))
  /\ Count("error", "") = 0
\* error was emitted once, as the last event, with the error the call rejected with
EndsWithError ==
  /\ pc = "rejected"
  /\ Count("error", "") = 1
  /\ LastEvent = ErrorEv(thrown)

Reported == {n \in OrderNames : Count("moduleError", n) > 0}
\* a listener of the call in flight has thrown: an event with a throwing
\* listener was emitted
ListenerThrew == \E i \in 1..Len(trace) : trace[i].type \in throwing
\* moduleError events that report the exception of a listener
ListenerReports ==
  {i \in 1..Len(trace) : trace[i].type = "moduleError" /\ trace[i].error.kind = "listener"}

\* C19: when a call is over, a module for which moduleError was emitted has no
\* entry in the results table and the aggregate holds no data produced by it.
C19_ReportedModulesHaveNoResult ==
  Settles =>
    \A n \in Reported :
      /\ n \notin DOMAIN moduleResults
      /\ pc = "done" => \A v \in Slots(returned) : v.module # n

\* C20: when a listener has thrown in a call, the call rejects with the
\* listener's exception after emitting error with it, and no moduleError
\* reports the exception as the failure of a module.
C20_ListenerExceptionsAreFatal ==
  (Settles /\ ListenerThrew) =>
    /\ pc = "rejected"
    /\ thrown.kind = "listener"
    /\ LastEvent = ErrorEv(thrown)
    /\ ListenerReports = {}

GetResult(m, key) == cacheGet(CacheState(m), now, Prefix(m), key).res
HasResult(m, key) == cacheHas(CacheState(m), now, Prefix(m), key).res
\* the step is an operation of instance p with outcome c
IsOp(c, p) ==
  /\ ops' = ops + 1
  /\ memoryCache' = c.mc
  /\ redisStore' = c.rs
  /\ redisUp' = c.up
  /\ useRedis' = [useRedis EXCEPT ![p] = c.flag]
  /\ written' = c.wr
IsSetBy(p) ==
  \E key \in Keys, value \in Values, options \in CacheOptions :
    IsOp(cacheSet(CacheState(p), now, Prefix(p), key, value, options), p)
IsDeleteBy(p) ==
  \E key \in Keys : IsOp(cacheDelete(CacheState(p), now, Prefix(p), key), p)
IsClearBy(p) ==
  \E delFails \in BOOLEAN : IsOp(cacheClear(CacheState(p), now, Prefix(p), delFails), p)
\* the step leaves what get and has return through instance q as it was
SameThrough(q) ==
  \A key \in Keys :
    /\ GetResult(q, key)' = GetResult(q, key)
    /\ HasResult(q, key)' = HasResult(q, key)
\* the time-to-live a set asked for, in seconds
RequestedTtl(options) == IF "ttl" \in DOMAIN options THEN options.ttl ELSE DefaultTtl
\* the in-memory entry of cache key ck is past the time-to-live it was set with
PastRequestedTtl(ck) ==
  /\ ck \in DOMAIN written.mem
  /\ now > written.mem[ck].at + RequestedTtl(written.mem[ck].options) * 1000

\* C13: for an instance in fallback mode, a key set in memory with a ttl of
\* 0, of one second, or with none (3600 seconds) is absent for get and for
\* has once the clock is past the time of the set plus that ttl.
C13_ExpiredEntriesAreAbsent ==
  \A m \in Managers, key \in Keys :
    (~useRedis[m] /\ PastRequestedTtl(getKey(Prefix(m), key))) =>
      /\ GetResult(m, key) = Null
      /\ HasResult(m, key) = "false"

\* C14: an operation that called the external store and found it failing
\* clears the instance's useRedis; useRedis never goes from false to true; and
\* an operation of an instance whose useRedis is false does not call the
\* store and leaves it as it is, reachable or not.
C14_NoRetryAfterFallback ==
  /\ [](lastOp.before = FALSE => lastOp.called = FALSE)
  /\ [][/\ \A m \in Managers : ~useRedis[m] => ~useRedis'[m]
        /\ (ops' = ops + 1 /\ lastOp'.called /\ ~redisUp') =>
             \E m \in Managers : useRedis[m] /\ ~useRedis'[m]
        /\ (ops' = ops + 1 /\ ~lastOp'.before) => redisStore' = redisStore]_vars

\* an instance in fallback mode has made an operation while the store was
\* reachable again
C14_Witness ==
  /\ ops = 2
  /\ lastOp.before = FALSE
  /\ lastOp.up = TRUE
  /\ lastOp.called = FALSE
  /\ \E m \in Managers : ~useRedis[m]

\* the instance reads the external store, resp. the memory map
ReadsStore(m) == useRedis[m] /\ redisUp
Unreadable(map, ck) == ck \notin DOMAIN map \/ ~parses(map[ck].value)

\* C15: get returns null for a key that does not exist or whose stored value
\* does not parse, in the external store when the instance reads it, in the
\* memory map otherwise.
C15_UnreadableIsAbsent ==
  \A m \in Managers, key \in Keys :
    LET ck == getKey(Prefix(m), key)
    IN /\ (ReadsStore(m) /\ (ck \notin redisLive(redisStore, now) \/ Unreadable(redisStore, ck))) =>
            GetResult(m, key) = Null
       /\ (~ReadsStore(m) /\ Unreadable(memoryCache, ck)) => GetResult(m, key) = Null

\* get(key) through instance q returns an entry that was set through an
\* instance of q's prefix
ReturnsOwnEntry(q, key) ==
  LET ck == getKey(Prefix(q), key)
      from == IF ReadsStore(q) THEN written.redis ELSE written.mem
  IN /\ GetResult(q, key) # Null
     /\ ck \in DOMAIN from
     /\ from[ck].by = Prefix(q)

\* C16: a clear() of an instance of prefix P removes every entry set through
\* an instance of prefix P (get then returns null for it) and leaves every
\* entry set through an instance of another prefix as it was (get and has
\* return for it what they returned before).
C16_ClearIsScopedToPrefix ==
  [][\A p \in Managers :
       IsClearBy(p) =>
         \A q \in Managers, key \in Keys :
           ReturnsOwnEntry(q, key) =>
             IF Prefix(q) = Prefix(p)
               THEN GetResult(q, key)' = Null
               ELSE /\ GetResult(q, key)' = GetResult(q, key)
                    /\ HasResult(q, key)' = HasResult(q, key)]_vars

\* C17: a set or a delete through an instance of prefix P changes neither
\* what get nor what has returns, for any key, through an instance of
\* another prefix.
C17_PrefixesDoNotCollide ==
  [][\A p \in Managers :
       (IsSetBy(p) \/ IsDeleteBy(p)) =>
         \A q \in Managers : Prefix(q) # Prefix(p) => SameThrough(q)]_vars

\* ------------------------------------------------- ties among independents
RegPos(n) == CHOOSE i \in 1..Len(modules) : modules[i].name = n
Independent(a, b) == a # b /\ a \notin DepsOf(b) /\ b \notin DepsOf(a)
\* b is a direct or transitive dependency of a module registered before a
PulledBefore(b, a) ==
  \E r \in Registered : RegPos(r) < RegPos(a) /\ b \in DepsOf(r)
\* the order of the call in flight is the one the registry resolves to
OrderIsResolved == executionOrder = resolveExecutionOrder(modules).order

\* C21 (as claimed): of two registered modules neither of which depends on
\* the other, the one registered earlier is earlier in the resolved order,
\* and the order is the one the registration sequence resolves to.
C21_AsClaimed ==
  (pc # "idle" /\ ResolutionSucceeds) =>
    /\ OrderIsResolved
    /\ \A a \in Registered, b \in Registered :
         (Independent(a, b) /\ RegPos(a) < RegPos(b)) => PosInOrder(a) < PosInOrder(b)

\* C21 (amended): of two registered modules neither of which depends on the
\* other, the one registered earlier is earlier in the resolved order unless
\* the other is a direct or transitive dependency of a module registered
\* before it, and the order is the one the registration sequence resolves to.
C21_RegistrationOrderBreaksTies ==
  (pc # "idle" /\ ResolutionSucceeds) =>
    /\ OrderIsResolved
    /\ \A a \in Registered, b \in Registered :
         (Independent(a, b) /\ RegPos(a) < RegPos(b) /\ ~PulledBefore(b, a)) =>
           PosInOrder(a) < PosInOrder(b)

\* three independent modules and one that depends on the second of them have
\* been resolved
C21_Witness ==
  /\ pc = "awaiting"
  /\ Len(executionOrder) = 4
  /\ \E a \in Registered, b \in Registered, c \in Registered :
       /\ Independent(a, b) /\ Independent(b, c) /\ Independent(a, c)
       /\ RegPos(a) < RegPos(b) /\ RegPos(b) < RegPos(c)
       /\ PosInOrder(a) < PosInOrder(b) /\ PosInOrder(b) < PosInOrder(c)
       /\ \E r \in Registered : RegPos(c) < RegPos(r) /\ b \in DepsOf(r)

\* ---------------------------------------------------------------------------
\* SpecFailures: calls on independent modules whose execute() may fail.  For
\* up to MaxFailOrderLen modules any of them may fail and the listeners of
\* one event may throw; for the shortest order in which a progress value
\* falls below a half-way point and for the longest order, the listeners do
\* not throw and up to MaxLongFailures modules fail.
MaxFailOrderLen == 3
MaxLongFailures == 1
RoundsBelowTie(n) ==
  \E k \in 1..n : IsTie(k, n) /\ mathRound(fmul100(fdiv(k, n))) # RoundPercent(k, n)
TieOrderLen ==
  CHOOSE n \in 1..MaxOrderLen :
    RoundsBelowTie(n) /\ \A m \in 1..(n - 1) : ~RoundsBelowTie(m)
LongOrderLens == {TieOrderLen, MaxOrderLen}
ExecuteFailures == Cardinality({i \in 1..Len(trace) : trace[i].type = "moduleError"})

InitFailures ==
  \/ \E n \in 1..MaxFailOrderLen, thr \in ThrowChoices : InitProgressWith(n, thr)
  \/ \E n \in LongOrderLens : InitProgressWith(n, {})

\* execute() rejects, in a long order only while few modules have failed
ModuleRejectsSometimes ==
  /\ Len(executionOrder) > MaxFailOrderLen => ExecuteFailures < MaxLongFailures
  /\ ModuleRejects

NextFailures ==
  \/ ModuleResolves
  \/ ModuleRejectsSometimes

SpecFailures == InitFailures /\ [][NextFailures]_vars

\* ------------------------------------------------- progress among failures
\* the events the step emits
NewEvents == (Len(trace) + 1)..Len(trace')
ProgressAt(t, i) == t[i].type = "progress"
\* the value of the last progress event of t before position i, 0 if none
ProgressBefore(t, i) ==
  LET before == {j \in 1..(i - 1) : ProgressAt(t, j)}
  IN IF before = {} THEN 0
     ELSE t[CHOOSE j \in before : \A l \in before : l <= j].progress
\* the last module of the order failed in execute()
LastModuleFailed ==
  /\ executionOrder # <<>>
  /\ \E i \in 1..Len(trace) :
       trace[i] = ModuleErrorEv(executionOrder[Len(executionOrder)].name,
                                ExecuteError(executionOrder[Len(executionOrder)].name))
HasProgress100 == \E i \in 1..Len(trace) : ProgressAt(trace, i) /\ trace[i].progress = 100
\* a progress event comes right after the moduleComplete of its module
FollowsComplete(t, i) ==
  /\ i > 1
  /\ t[i - 1].type = "moduleComplete"
  /\ t[i - 1].name = t[i].name

InFlight ==
  {i \in 1..Len(trace) :
     /\ trace[i].type = "execute"
     /\ ~\E j \in (i + 1)..Len(trace) :
           /\ trace[j].name = trace[i].name
           /\ trace[j].type \in {"moduleComplete", "moduleError"}}

PhaseOf(n) == executionOrder[PosInOrder(n)].phase
\* the moduleComplete events of crawl-phase modules before position i
CrawlCompletesBefore(i) ==
  {j \in 1..(i - 1) : trace[j].type = "moduleComplete" /\ PhaseOf(trace[j].name) = "crawl"}
\* the result of the crawl-phase module that completed last before position
\* i, absent if none did
LastCrawlResult(i) ==
  LET C == CrawlCompletesBefore(i)
  IN IF C = {} THEN Absent ELSE trace[CHOOSE j \in C : \A l \in C : l <= j].result

\* C24: every execute() is given a context whose crawlResults is the result
\* of the crawl-phase module that completed last before it in the call, and
\* is absent if none has; so a module of another phase and a crawl-phase
\* module that fails leave the slot as it was.  The slot of the call in
\* flight obeys the same rule.
C24_CrawlSlotFollowsCrawlPhase ==
  /\ \A i \in 1..Len(trace) : trace[i].type = "execute" => trace[i].result = LastCrawlResult(i)
  /\ pc # "idle" => crawlResults = LastCrawlResult(Len(trace) + 1)

\* seo is invoked with the result of custom, the crawl-phase module that
\* completed last before it, in a call in which crawler completes as well
C24_Witness ==
  /\ Len(executionOrder) = 3
  /\ \E i \in 1..Len(trace) :
       /\ trace[i].type = "execute"
       /\ trace[i].result # Absent
       /\ trace[i].result.module = "custom"
       /\ trace[i].name = "seo"
       /\ "crawler" \in Succeeded

\* ------------------------------------------------ crawlData and the crawl slot
\* the registered modules of the crawl phase are those named crawler
CrawlPhaseIsCrawler ==
  \A i \in 1..Len(modules) : (modules[i].phase = "crawl") = (modules[i].name = "crawler")

\* C27 (as claimed): when a call resolves, crawlData of the aggregate is the
\* value of the context's crawlResults, whatever the names of the crawl-phase
\* modules.
C27_AsClaimed == pc = "done" => returned.crawlData = crawlResults

\* C27 (amended): when a call resolves on a registry whose crawl-phase
\* modules are exactly the modules named crawler, crawlData of the aggregate
\* is the value of the context's crawlResults.
C27_CrawlDataIsCrawlSlot ==
  (pc = "done" /\ CrawlPhaseIsCrawler) => returned.crawlData = crawlResults

\* a call on crawler, of the crawl phase, and a module of another phase has
\* resolved with crawler's result
C27_Witness ==
  /\ pc = "done"
  /\ CrawlPhaseIsCrawler
  /\ Len(executionOrder) >= 2
  /\ Succeeded = OrderNames
  /\ returned.crawlData = ResultOf("crawler", run)
  /\ crawlResults = ResultOf("crawler", run)

\* ------------------------------------------------------------- termination
\* SpecLive: one call over up to MaxLiveOrderLen modules, with any choice of
\* throwing listeners, in which every execute() that is awaited settles: the
\* promise a module returns is resolved or rejected at some time.
MaxLiveOrderLen == 4

InitLive == \E n \in 1..MaxLiveOrderLen, thr \in ThrowChoices : InitProgressWith(n, thr)

NextLive ==
  \/ ModuleResolves
  \/ ModuleRejects

ModuleSettles == ModuleResolves \/ ModuleRejects

SpecLive == InitLive /\ [][NextLive]_vars /\ WF_vars(ModuleSettles)

\* modules of the order after the one being awaited
Later == {executionOrder[k].name : k \in (idx + 1)..Len(executionOrder)}
\* C26: a call that awaits a module settles, and a settled call has emitted
\* complete or error as its last event; while a module is awaited no later
\* module has been started and neither complete nor error has been emitted,
\* and only the settling of that module ends the wait.
C26_SettlesIfModulesSettle ==
  /\ (pc = "awaiting") ~> Settles
  /\ [](Settles => LastEvent.type \in {"complete", "error"})
  /\ [](pc = "awaiting" =>
          \A i \in 1..Len(trace) :
            /\ trace[i].type \notin {"complete", "error"}
            /\ trace[i].name \notin Later)
  /\ [][(pc = "awaiting" /\ (pc' # "awaiting" \/ idx' # idx)) =>
          \E i \in NewEvents :
            /\ trace'[i].name = executionOrder[idx].name
            /\ trace'[i].type \in {"moduleComplete", "moduleError"}]_vars

\* a call of three modules has awaited each of them, the second has
\* rejected, and the call has resolved with complete as its last event
C26_Witness ==
  /\ pc = "done"
  /\ Len(executionOrder) = 3
  /\ Failed = {executionOrder[2].name}
  /\ Succeeded = {executionOrder[1].name, executionOrder[3].name}
  /\ LastEvent.type = "complete"

\* ------------------------------------------------------------ has and get
\* the entry instance m reads under key, if it is one that a set has written
\* and that has not expired
StoredText(m, key) ==
  LET ck == getKey(Prefix(m), key)
  IN IF ReadsStore(m)
       THEN IF ck \in redisLive(redisStore, now) /\ ck \in DOMAIN written.redis
              THEN redisStore[ck].value ELSE <<>>
     ELSE IF ck \in DOMAIN memoryCache /\ now <= memoryCache[ck].expires
       THEN memoryCache[ck].value
     ELSE <<>>
\* what instance m reads under key is not a string that another client of
\* the external store has put there
SetOrMissing(m, key) ==
  LET ck == getKey(Prefix(m), key)
  IN (ReadsStore(m) /\ ck \in redisLive(redisStore, now)) => ck \in DOMAIN written.redis

\* C28 as claimed: has(k) is true exactly when get(k) is not null, whatever
\* value was set, a null included.
C28_AsClaimed ==
  \A m \in Managers, key \in Keys :
    SetOrMissing(m, key) => ((HasResult(m, key) = "true") <=> (GetResult(m, key) # Null))

\* C28: for a key that is missing or holds a value written by set, in either
\* mode, has(k) is true exactly when the key holds an unexpired entry; get(k)
\* then returns the value that was set, so that has(k) and a non-null get(k)
\* agree for every stored value but null, for which has is true and get null.
C28_HasMatchesGetUnlessNull ==
  \A m \in Managers, key \in Keys :
    SetOrMissing(m, key) =>
      /\ (HasResult(m, key) = "true") <=> (StoredText(m, key) # <<>>)
      /\ StoredText(m, key) # <<>> => GetResult(m, key) = parse(StoredText(m, key))
      /\ StoredText(m, key) = <<>> => GetResult(m, key) = Null
      /\ StoredText(m, key) \notin {<<>>, stringify(Null)} =>
           (HasResult(m, key) = "true" /\ GetResult(m, key) # Null)

\* one instance reads 'x' from the external store, another one, in fallback
\* mode, holds a stored null in memory: has is true for both, get is null
\* for the second only
C28_Witness ==
  \E m, q \in Managers, key \in Keys :
    /\ ReadsStore(m) /\ StoredText(m, key) = stringify("x")
    /\ HasResult(m, key) = "true" /\ GetResult(m, key) = "x"
    /\ ~useRedis[q] /\ StoredText(q, key) = stringify(Null)
    /\ HasResult(q, key) = "true" /\ GetResult(q, key) = Null

\* ------------------------------------------------- the switch to the memory map
\* C29: an instance leaves the external store only in an operation in which
\* a call to the store fails (the store does not answer when the operation
\* starts, or stops answering during it); in particular not in a get that
\* reads a value that is present and does not parse.
C29_FallbackOnlyOnStoreFailure ==
  [][\A m \in Managers :
       (useRedis[m] /\ ~useRedis'[m]) => (~redisUp \/ ~redisUp')]_vars

\* ------------------------------------------------------ delete and clear
\* key has been deleted or cleared through an instance of q's prefix, and
\* nothing has written its cache key since
Removed(q, key) == [by |-> Prefix(q), ck |-> getKey(Prefix(q), key)] \in written.gone

\* C30: once delete(k) or clear() has returned on an instance of prefix P,
\* and until k is set again, get(k) returns null and has(k) returns false
\* through every instance of prefix P, whichever store each instance uses and
\* whenever the external store stops or starts answering.
C30_RemovedStaysRemoved ==
  \A q \in Managers, key \in Keys :
    Removed(q, key) => (GetResult(q, key) = Null /\ HasResult(q, key) = "false")

\* ------------------------------------------------------- overlapping calls
\* SpecOverlap: two executeAnalysis calls on one instance whose registry
\* holds the first n of OverlapModules. The second call begins while the
\* first awaits a module, or after the first has settled. The calls share
\* this.moduleResults and the listeners; the order, the context and the
\* position in the loop are locals of each call.
MaxOverlapModules == 3
OverlapModules ==
  <<Module("crawler", "crawl", <<>>), Module("seo", "seo", <<"crawler">>),
    Module("custom", "crawl", <<>>)>>

InitOverlap ==
  \E n \in 1..MaxOverlapModules :
    /\ modules = SubSeq(OverlapModules, 1, n)
    /\ moduleResults = EmptyMap
    /\ lastCall = Call("registerModule", "none")
    /\ cleared = FALSE
    /\ run = 0
    /\ pc = "idle"
    /\ executionOrder = <<>>
    /\ idx = 0
    /\ crawlResults = Absent
    /\ throwing = {}
    /\ trace = <<>>
    /\ returned = NoAggregate
    /\ thrown = NoError
    /\ succeededBefore = {}
    /\ job = NoJob
    /\ given = NoJob
    /\ other = NoCall
    /\ CacheInit

\* what the second call works on: the shared table and listeners, its locals
OtherCurrent ==
  [moduleResults |-> moduleResults, crawlResults |-> other.crawlResults, trace |-> trace,
   pc |-> other.pc, idx |-> other.idx, returned |-> other.returned, thrown |-> other.thrown]

InstallOther(st) ==
  /\ moduleResults' = st.moduleResults
  /\ trace' = st.trace
  /\ other' = [other EXCEPT !.pc = st.pc, !.idx = st.idx, !.crawlResults = st.crawlResults,
                            !.returned = st.returned, !.thrown = st.thrown]
  /\ UNCHANGED <<modules, lastCall, cleared, run, pc, executionOrder, idx, crawlResults,
                 throwing, returned, thrown, succeededBefore, job, given>>
  /\ UNCHANGED cacheVars

\* executeAnalysis is called a second time, while the first call awaits a
\* module or after it has settled; runs up to the first await
OverlapExecuteAnalysis ==
  /\ pc \in {"awaiting", "done", "rejected"}
  /\ other.run = 0
  /\ LET b == BeginAnalysis({}, modules)
     IN /\ moduleResults' = b.st.moduleResults
        /\ trace' = trace \o b.st.trace
        /\ other' = [pc |-> b.st.pc, idx |-> b.st.idx, executionOrder |-> b.order,
                     crawlResults |-> b.st.crawlResults, returned |-> b.st.returned,
                     thrown |-> b.st.thrown, run |-> run + 1,
                     overlapped |-> pc = "awaiting"]
  /\ UNCHANGED <<modules, lastCall, cleared, run, pc, executionOrder, idx, crawlResults,
                 throwing, returned, thrown, succeededBefore, job, given>>
  /\ UNCHANGED cacheVars

\* the execute() the second call awaits resolves, resp. rejects
OtherModuleResolves ==
  /\ other.pc = "awaiting"
  /\ \E st \in {AfterExecute({}, other.executionOrder, OtherCurrent, other.idx,
                             ResultOf(other.executionOrder[other.idx].name, other.run))} :
       InstallOther(st)
OtherModuleRejects ==
  /\ other.pc = "awaiting"
  /\ \E st \in {CatchModule({}, other.executionOrder, OtherCurrent, other.idx,
                            ExecuteError(other.executionOrder[other.idx].name))} :
       InstallOther(st)

NextOverlap ==
  \/ ExecuteAnalysisQuiet
  \/ ModuleResolves
  \/ ModuleRejects
  \/ OverlapExecuteAnalysis
  \/ OtherModuleResolves
  \/ OtherModuleRejects

SpecOverlap == InitOverlap /\ [][NextOverlap]_vars

\* the modules whose execute() resolved in call r
ProducedIn(r) ==
  {n \in ModuleNames :
     \E i \in 1..Len(trace) :
       trace[i].type = "moduleComplete" /\ trace[i].result = ResultOf(n, r)}
\* the aggregate holds, per slot, the result the module of that name produced
\* in call r, and nothing if it produced none
OwnResultsOnly(agg, r) ==
  \A n \in WellKnownNames :
    SlotOf(agg, n) = IF n \in ProducedIn(r) THEN ResultOf(n, r) ELSE Absent

====
